---- MODULE Spec2Model ----
(***************************************************************************)
(* Model of src/bot.py: a Telegram bot that buffers photos per user, saves *)
(* them under a normalized licence-plate key in a MongoDB collection and   *)
(* answers searches by plate.                                              *)
(*                                                                         *)
(* Text is a sequence of one-character strings.  Two characters that the   *)
(* module's parser cannot hold in a string literal are written by their    *)
(* code point: "U+0663" is ARABIC-INDIC DIGIT THREE (a decimal digit for   *)
(* Python's \d, not an ASCII digit) and "U+00DF" is LATIN SMALL LETTER     *)
(* SHARP S (str.upper() turns it into "SS").                               *)
(*                                                                         *)
(* Spec has the updates that write or search: photos, texts, /search and   *)
(* /cancel.  SpecCommands adds /stats and /list, which only read the       *)
(* collection.  SpecStoreUp keeps the history of every buffered photo in   *)
(* the runs where the store never fails.  SpecText applies normalize_text  *)
(* and validate_format to typed text.  /start, /help and /check_db only    *)
(* send a message; they touch neither the collection's documents nor       *)
(* user_data and are not modelled.                                         *)
(***************************************************************************)
EXTENDS Naturals, Sequences, FiniteSets, TLC

VARIABLES
    records,     \* the license_plates collection, in insertion order
    user_data,   \* context.user_data of every conversation (a dict each)
    replies,     \* the notices the last handler handed to reply_text/reply_photo
    last,        \* the last update dispatched and the branch its handler took
    raw,         \* the tokens typed so far (specification SpecText)
    key,         \* normalize_text of the typed text
    ok,          \* validate_format of the typed text
    marks,       \* history: for every buffered photo, what texts have done with it
    followed     \* history: photos received that a valid text has followed

vars == <<records, user_data, replies, last, raw, key, ok, marks, followed>>

----------------------------------------------------------------------------
(* Bounds of the model *)

MaxBuffer == 2      \* photos buffered, over all conversations
MaxRecords == 2     \* documents in the collection
MaxTokens == 5      \* tokens typed into raw (SpecText)

----------------------------------------------------------------------------
(* Characters, as Python's str methods and re classify them *)

LowerSeq == <<"a","b","c","d","e","f","g","h","i","j","k","l","m",
              "n","o","p","q","r","s","t","u","v","w","x","y","z">>
UpperSeq == <<"A","B","C","D","E","F","G","H","I","J","K","L","M",
              "N","O","P","Q","R","S","T","U","V","W","X","Y","Z">>

\* str.isspace(): what strip() and split() treat as whitespace
Whitespace == {" ", "\n"}

\* [A-Z]
UpperAZ == {UpperSeq[i] : i \in DOMAIN UpperSeq}

\* the ASCII digits 0-9
ASCIIDigit == {"0","1","2","3","4","5","6","7","8","9"}

\* \d of a str pattern: every Unicode decimal digit, ASCII or not
DecimalDigit == ASCIIDigit \cup {"U+0663"}

\* a-z to A-Z
to_upper ==
    [c \in {LowerSeq[i] : i \in DOMAIN LowerSeq} |->
        UpperSeq[CHOOSE i \in DOMAIN LowerSeq : LowerSeq[i] = c]]

\* str.upper() of one character (it may yield two)
upper_char(c) ==
    IF c \in DOMAIN to_upper THEN <<to_upper[c]>>
    ELSE IF c = "U+00DF" THEN <<"S", "S">>
    ELSE <<c>>

RECURSIVE upper(_)
upper(s) == IF s = <<>> THEN <<>> ELSE upper_char(Head(s)) \o upper(Tail(s))

RECURSIVE lstrip(_)
lstrip(s) ==
    IF s # <<>> /\ Head(s) \in Whitespace THEN lstrip(Tail(s)) ELSE s

RECURSIVE rstrip(_)
rstrip(s) ==
    IF s # <<>> /\ s[Len(s)] \in Whitespace
    THEN rstrip(SubSeq(s, 1, Len(s) - 1))
    ELSE s

\* str.strip()
strip_eval(s) == rstrip(lstrip(s))

\* str.split(): the maximal runs of non-whitespace characters, in order.
\* cur is the run being read, out the runs already closed.
RECURSIVE split_from(_, _, _)
split_from(s, cur, out) ==
    IF s = <<>>
    THEN IF cur = <<>> THEN out ELSE Append(out, cur)
    ELSE IF Head(s) \in Whitespace
         THEN split_from(Tail(s), <<>>, IF cur = <<>> THEN out ELSE Append(out, cur))
         ELSE split_from(Tail(s), Append(cur, Head(s)), out)

split(s) == split_from(s, <<>>, <<>>)

\* ' '.join(parts)
RECURSIVE join(_)
join(parts) ==
    IF parts = <<>> THEN <<>>
    ELSE IF Len(parts) = 1 THEN parts[1]
    ELSE parts[1] \o <<" ">> \o join(Tail(parts))

----------------------------------------------------------------------------
(* Inputs of the model *)

\* context.user_data is one dict per conversation
Conversations == {"A", "B"}

\* photo contents (file.download_as_bytearray())
Blobs == {"p1", "p2"}

\* datetime.datetime.now(): the model keeps no clock, every reading of it is
\* this one value
datetime_now == "now"

T_lower == <<"1","2","a","b","3","4","5">>                  \* 12ab345
T_padded == <<" ","1","2","A","B","3","4","5","\n">>        \* 12AB345 in whitespace
T_spaced == <<"1","2"," "," ","a","B","\n","3","4","5">>    \* 12  aB\n345
T_bad == <<"A","B"," ","1","2","3","4">>                    \* AB 1234

\* message texts (Telegram delivers no empty text message)
Texts == {T_lower, T_padded, T_spaced, T_bad}

\* what follows /search in the message; it may be nothing
Queries == {T_spaced, T_bad, <<>>}

\* the strings the handlers pass on from these inputs, and the keys
\* save_record makes of the texts
HandlerTexts ==
    Texts \cup Queries \cup {strip_eval(t) : t \in Texts}
          \cup {strip_eval(join(split(q))) : q \in Queries}
          \cup {join(split(upper(strip_eval(t)))) : t \in Texts}

\* strip on the handlers' strings, evaluated once
strip_memo == [t \in HandlerTexts |-> strip_eval(t)]

strip(s) == IF s \in DOMAIN strip_memo THEN strip_memo[s] ELSE strip_eval(s)

----------------------------------------------------------------------------
(* normalize_text *)

\* ' '.join(text.strip().upper().split())
normalize_text_eval(text) == join(split(upper(strip(text))))

\* its values on the handlers' strings, evaluated once
normalize_text_memo == [t \in HandlerTexts |-> normalize_text_eval(t)]

\* variant: runs of whitespace inside the text are left as they are
normalize_text_mut_nocollapse(text) == upper(strip(text))

normalize_text(text) ==
    IF text \in DOMAIN normalize_text_memo
    THEN normalize_text_memo[text]
    ELSE normalize_text_eval(text)

----------------------------------------------------------------------------
(* validate_format *)

\* The eight patterns, in the order of the list; "d" is \d, "L" is [A-Z],
\* "sp" is a literal space.
patterns == <<
    <<"d","d","sp","d","d","sp","d","d","d">>,
    <<"d","d","d","sp","L","L","sp","d","d">>,
    <<"d","d","d","sp","d","d","sp","d","d">>,
    <<"d","d","sp","L","L","sp","d","d","d">>,
    <<"d","d","d","d","d","d","d">>,
    <<"d","d","d","L","L","d","d">>,
    <<"d","d","d","d","d","d","d">>,
    <<"d","d","L","L","d","d","d">> >>

\* the characters one pattern element matches
class(cls) ==
    IF cls = "d" THEN DecimalDigit
    ELSE IF cls = "L" THEN UpperAZ
    ELSE {" "}

\* the pattern's elements match text character by character, all of it
matches_all(pattern, text) ==
    /\ Len(text) = Len(pattern)
    /\ \A i \in 1..Len(pattern) : text[i] \in class(pattern[i])

\* re.match('^...$', text): $ matches at the end of the string and also just
\* before a newline that ends it
re_match(pattern, text) ==
    \/ matches_all(pattern, text)
    \/ /\ text # <<>>
       /\ text[Len(text)] = "\n"
       /\ matches_all(pattern, SubSeq(text, 1, Len(text) - 1))

validate_format_eval(text) ==
    LET t == join(split(upper(strip(text))))
    IN  \E i \in DOMAIN patterns : re_match(patterns[i], t)

\* its values on the handlers' strings, evaluated once
validate_format_memo == [t \in HandlerTexts |-> validate_format_eval(t)]

validate_format(text) ==
    IF text \in DOMAIN validate_format_memo
    THEN validate_format_memo[text]
    ELSE validate_format_eval(text)

----------------------------------------------------------------------------
(* MongoStorage *)

\* bson Binary(file_data): subtype 0 wraps the bytes
Binary(file_data) == [subtype |-> 0, data |-> file_data]

\* the bytes BytesIO reads from a stored Binary
bytes_of(binary) == binary.data

\* variant: the text is stored as received, not normalized
save_record_mut_raw(recs, text_data, file_data) ==
    Append(recs, [license_plate |-> text_data,
                  photo_data |-> Binary(file_data),
                  created_at |-> datetime_now])

\* variant: a document with the same license_plate is replaced (an upsert)
save_record_mut_upsert(recs, text_data, file_data) ==
    LET record == [license_plate |-> normalize_text(text_data),
                   photo_data |-> Binary(file_data),
                   created_at |-> datetime_now]
    IN  IF \E i \in DOMAIN recs : recs[i].license_plate = record.license_plate
        THEN [i \in DOMAIN recs |->
                IF recs[i].license_plate = record.license_plate
                THEN record ELSE recs[i]]
        ELSE Append(recs, record)

\* insert_one of the new document; the collection keeps insertion order
save_record(recs, text_data, file_data) ==
    Append(recs, [license_plate |-> normalize_text(text_data),
                  photo_data |-> Binary(file_data),
                  created_at |-> datetime_now])

RECURSIVE photo_data_of(_)
photo_data_of(results) ==
    IF results = <<>> THEN <<>>
    ELSE <<Head(results).photo_data>> \o photo_data_of(Tail(results))

\* variant: the search text is compared as received, not normalized
search_record_mut_raw(recs, search_text) ==
    photo_data_of(SelectSeq(recs, LAMBDA r : r.license_plate = search_text))

\* find({"license_plate": normalized_search}) and the photo_data of each hit
search_record(recs, search_text) ==
    LET normalized_search == normalize_text(search_text)
    IN  photo_data_of(SelectSeq(recs,
                                LAMBDA r : r.license_plate = normalized_search))

\* the values of a distinct command: each value once, listed here in the
\* order of first occurrence
RECURSIVE distinct(_)
distinct(values) ==
    IF values = <<>> THEN <<>>
    ELSE LET before == distinct(SubSeq(values, 1, Len(values) - 1))
             value == values[Len(values)]
         IN  IF \E i \in DOMAIN before : before[i] = value
             THEN before
             ELSE Append(before, value)

\* variant: the license_plate of every document, repeated or not
get_all_plates_mut_all(recs) == [i \in DOMAIN recs |-> recs[i].license_plate]

\* distinct("license_plate")
get_all_plates(recs) ==
    distinct([i \in DOMAIN recs |-> recs[i].license_plate])

\* count_documents({}) and len(get_all_plates())
get_stats(recs) ==
    [total_records |-> Len(recs),
     unique_plates |-> Len(get_all_plates(recs))]

----------------------------------------------------------------------------
(* context.user_data: a dict that holds the key photo_data or nothing *)

EmptyDict == [k \in {} |-> <<>>]

has_key(d) == "photo_data" \in DOMAIN d

\* 'photo_data' in context.user_data and context.user_data['photo_data']
\* variant: every text is taken for the plate of pending photos
has_pending_mut_always(d) == TRUE

has_pending(d) == has_key(d) /\ d.photo_data # <<>>

\* the list under photo_data, empty when the key is absent
pending(d) == IF has_key(d) THEN d.photo_data ELSE <<>>

\* photos buffered in the conversations cs
RECURSIVE buffered(_, _)
buffered(ud, cs) ==
    IF cs = {} THEN 0
    ELSE LET c == CHOOSE x \in cs : TRUE
         IN  Len(pending(ud[c])) + buffered(ud, cs \ {c})

\* variant: the new photo replaces the list
append_photo_mut_replace(d, photo_data) == [photo_data |-> <<photo_data>>]

\* create the list when absent, then append
append_photo(d, photo_data) ==
    [photo_data |-> Append(pending(d), photo_data)]

\* variant: clear() leaves the dict as it is
dict_clear_mut_keep(d) == d

\* context.user_data.clear()
dict_clear(d) == EmptyDict

----------------------------------------------------------------------------
(* Notices handed to update.message.reply_text / reply_photo *)

Notice(kind) == [kind |-> kind, count |-> 0, photo |-> "", caption |-> <<>>]

CountNotice(kind, n) == [kind |-> kind, count |-> n, photo |-> "", caption |-> <<>>]

PhotoNotice(photo_bytes, search_text) ==
    [kind |-> "photo", count |-> 0, photo |-> photo_bytes, caption |-> search_text]

\* the statistics message: both numbers of get_stats
StatsNotice(stats) ==
    [kind |-> "stats", count |-> stats.total_records, photo |-> "",
     caption |-> <<>>, unique |-> stats.unique_plates]

\* one message of the plate list: the header and a piece of the listing
ListNotice(chunk) ==
    [kind |-> "list", count |-> 0, photo |-> "", caption |-> chunk]

\* the update dispatched and the branch taken
Event(op, c, text, photo, branch, store_fail, send_fail) ==
    [op |-> op, conv |-> c, text |-> text, photo |-> photo, branch |-> branch,
     store_fail |-> store_fail, send_fail |-> send_fail]

----------------------------------------------------------------------------
(* Initial state: empty collection, no user_data, nothing typed *)

Init ==
    /\ records = <<>>
    /\ user_data = [c \in Conversations |-> EmptyDict]
    /\ replies = <<>>
    /\ last = Event("init", "A", <<>>, "", "init", 0, 0)
    /\ raw = <<>>
    /\ key = <<>>
    /\ ok = FALSE
    /\ marks = [c \in Conversations |-> <<>>]
    /\ followed = 0

----------------------------------------------------------------------------
(* handle_photo_auto *)

\* get_file() or download_as_bytearray() raises: nothing was appended yet
photo_download_fails(c, photo_data) ==
    /\ replies' = <<Notice("photo_error")>>
    /\ last' = Event("photo", c, <<>>, photo_data, "download_failed", 0, 0)
    /\ UNCHANGED <<records, user_data>>

\* the reply after the append: the first photo is acknowledged without a
\* count, later ones with the length of the list
photo_ack(d) ==
    IF Len(d.photo_data) = 1
    THEN Notice("photo_first")
    ELSE CountNotice("photo_count", Len(d.photo_data))

\* the photo is downloaded and appended; send_fail = 1 when the
\* acknowledgement raises, which the except clause answers with the error notice
photo_buffered(c, photo_data, send_fail) ==
    LET d == append_photo(user_data[c], photo_data)
    IN  /\ user_data' = [user_data EXCEPT ![c] = d]
        /\ replies' = IF send_fail = 0
                      THEN <<photo_ack(d)>>
                      ELSE <<photo_ack(d), Notice("photo_error")>>
        /\ last' = Event("photo", c, <<>>, photo_data, "buffered", 0, send_fail)
        /\ UNCHANGED records

handle_photo_auto(c, photo_data) ==
    /\ buffered(user_data, Conversations) < MaxBuffer
    /\ \/ photo_download_fails(c, photo_data)
       \/ \E send_fail \in 0..1 : photo_buffered(c, photo_data, send_fail)
    /\ UNCHANGED <<raw, key, ok>>

----------------------------------------------------------------------------
(* perform_search *)

\* the reply_photo calls of the loop over results, up to the one that raises
RECURSIVE photo_replies(_, _, _, _)
photo_replies(results, search_text, send_fail, i) ==
    IF i > Len(results) THEN <<>>
    ELSE IF i = send_fail
    THEN <<PhotoNotice(bytes_of(results[i]), search_text), Notice("search_error")>>
    ELSE <<PhotoNotice(bytes_of(results[i]), search_text)>>
         \o photo_replies(results, search_text, send_fail, i + 1)

\* The notices of perform_search.  find_fails: the find raises.  send_fail:
\* which send inside the try raises (0: none); the except clause then sends
\* the search-error notice.
perform_search(recs, search_text, find_fails, send_fail) ==
    IF ~validate_format(search_text) THEN <<Notice("format_error")>>
    ELSE IF find_fails THEN <<Notice("search_error")>>
    ELSE LET results == search_record(recs, search_text)
         IN  IF results = <<>>
             THEN IF send_fail = 0
                  THEN <<Notice("no_results")>>
                  ELSE <<Notice("no_results"), Notice("search_error")>>
             ELSE photo_replies(results, search_text, send_fail, 1)

\* the sends perform_search makes inside its try block
search_sends(recs, search_text) ==
    IF ~validate_format(search_text) THEN 0
    ELSE LET results == search_record(recs, search_text)
         IN  IF results = <<>> THEN 1 ELSE Len(results)

----------------------------------------------------------------------------
(* handle_text_auto *)

RECURSIVE save_loop(_, _, _, _, _)
RECURSIVE save_loop_mut_rollback(_, _, _, _, _)
\* variant: a failed insert undoes the inserts of the batch before it
save_loop_mut_rollback(recs, text_data, photo_data_list, store_fail, i) ==
    IF store_fail # 0 THEN recs
    ELSE IF i > Len(photo_data_list) THEN recs
    ELSE save_loop_mut_rollback(save_record(recs, text_data, photo_data_list[i]),
                                text_data, photo_data_list, store_fail, i + 1)

\* variant: only the first buffered photo is saved
save_loop_mut_first(recs, text_data, photo_data_list, store_fail, i) ==
    IF store_fail = 1 THEN recs
    ELSE save_record(recs, text_data, photo_data_list[1])

\* the loop over the buffered photos: save_record for each, in order, until
\* the store_fail-th insert raises (0: none does; a failed insert writes nothing)
save_loop(recs, text_data, photo_data_list, store_fail, i) ==
    IF i > Len(photo_data_list) \/ i = store_fail THEN recs
    ELSE save_loop(save_record(recs, text_data, photo_data_list[i]),
                   text_data, photo_data_list, store_fail, i + 1)

\* variant: a rejected text also drops the pending photos
text_reject_mut_clear(c, text) ==
    /\ has_pending(user_data[c])
    /\ ~validate_format(strip(text))
    /\ replies' = <<Notice("format_error")>>
    /\ last' = Event("text", c, text, "", "reject", 0, 0)
    /\ user_data' = [user_data EXCEPT ![c] = dict_clear(user_data[c])]
    /\ UNCHANGED records

\* photos are pending and the text is not a plate: the format notice, return
text_reject(c, text) ==
    /\ has_pending(user_data[c])
    /\ ~validate_format(strip(text))
    /\ replies' = <<Notice("format_error")>>
    /\ last' = Event("text", c, text, "", "reject", 0, 0)
    /\ UNCHANGED <<records, user_data>>

\* photos are pending and the text is a plate: the try block.  The saved
\* notice is sent after the loop and before user_data.clear(); an insert
\* (store_fail: which one, 0: none) or that send (send_fail = 1) raising
\* leaves to the except clause, which sends the error notice.
text_save(c, text) ==
    LET text_data == strip(text)
        photo_data_list == pending(user_data[c])
        n == Len(photo_data_list)
    IN  /\ has_pending(user_data[c])
        /\ validate_format(text_data)
        /\ Len(records) + n <= MaxRecords
        /\ \E store_fail \in 0..n, send_fail \in 0..1 :
             /\ store_fail # 0 => send_fail = 0
             /\ records' = save_loop(records, text_data, photo_data_list,
                                     store_fail, 1)
             /\ IF store_fail # 0
                THEN /\ replies' = <<Notice("save_error")>>
                     /\ UNCHANGED user_data
                ELSE IF send_fail # 0
                THEN /\ replies' = <<CountNotice("saved", n), Notice("save_error")>>
                     /\ UNCHANGED user_data
                ELSE /\ replies' = <<CountNotice("saved", n)>>
                     /\ user_data' =
                          [user_data EXCEPT ![c] = dict_clear(user_data[c])]
             /\ last' = Event("text", c, text, "", "save", store_fail, send_fail)

\* no photo is pending: the text is a search request
text_search(c, text) ==
    LET text_data == strip(text)
    IN  /\ ~has_pending(user_data[c])
        /\ \E find_fails \in 0..1 :
             \E send_fail \in 0..search_sends(records, text_data) :
               /\ find_fails = 1 => send_fail = 0 /\ validate_format(text_data)
               /\ replies' = perform_search(records, text_data, find_fails = 1,
                                            send_fail)
               /\ last' = Event("text", c, text, "", "perform_search",
                                find_fails, send_fail)
        /\ UNCHANGED <<records, user_data>>

handle_text_auto(c, text) ==
    /\ \/ text_reject(c, text)
       \/ text_save(c, text)
       \/ text_search(c, text)
    /\ UNCHANGED <<raw, key, ok>>

----------------------------------------------------------------------------
(* search_direct: /search followed by query *)

\* context.args: the words after the command
args_eval(query) == split(query)

\* its values on the model's queries, evaluated once
args_memo == [q \in Queries |-> args_eval(q)]

args_of(query) ==
    IF query \in DOMAIN args_memo THEN args_memo[query] ELSE args_eval(query)

\* no argument: the usage notice
search_usage(c, query) ==
    /\ args_of(query) = <<>>
    /\ replies' = <<Notice("usage")>>
    /\ last' = Event("search", c, query, "", "usage", 0, 0)
    /\ UNCHANGED <<records, user_data>>

\* variant: /search is routed like a text message, so that with photos
\* pending a valid query saves them
search_query_mut_save(c, query) ==
    LET search_text == strip(join(args_of(query)))
        photo_data_list == pending(user_data[c])
    IN  /\ args_of(query) # <<>>
        /\ IF has_pending(user_data[c]) /\ validate_format(search_text)
           THEN /\ Len(records) + Len(photo_data_list) <= MaxRecords
                /\ records' = save_loop(records, search_text, photo_data_list, 0, 1)
                /\ user_data' = [user_data EXCEPT ![c] = dict_clear(user_data[c])]
                /\ replies' = <<CountNotice("saved", Len(photo_data_list))>>
                /\ last' = Event("search", c, query, "", "perform_search", 0, 0)
           ELSE /\ replies' = perform_search(records, search_text, FALSE, 0)
                /\ last' = Event("search", c, query, "", "perform_search", 0, 0)
                /\ UNCHANGED <<records, user_data>>

\* a query: the words joined by single spaces go to perform_search
search_query(c, query) ==
    LET search_text == strip(join(args_of(query)))
    IN  /\ args_of(query) # <<>>
        /\ \E find_fails \in 0..1 :
             \E send_fail \in 0..search_sends(records, search_text) :
               /\ find_fails = 1 => send_fail = 0 /\ validate_format(search_text)
               /\ replies' = perform_search(records, search_text, find_fails = 1,
                                            send_fail)
               /\ last' = Event("search", c, query, "", "perform_search",
                                find_fails, send_fail)
        /\ UNCHANGED <<records, user_data>>

search_direct(c, query) ==
    /\ \/ search_usage(c, query)
       \/ search_query(c, query)
    /\ UNCHANGED <<raw, key, ok>>

----------------
(* cancel *)

\* variant: cancel clears every conversation's dict
cancel_mut_all(c) ==
    /\ user_data' = [b \in Conversations |-> dict_clear(user_data[b])]
    /\ replies' = <<Notice("cancelled")>>
    /\ last' = Event("cancel", c, <<>>, "", "cancel", 0, 0)
    /\ UNCHANGED <<records, raw, key, ok>>

\* context.user_data.clear(), then the notice
cancel(c) ==
    /\ user_data' = [user_data EXCEPT ![c] = dict_clear(user_data[c])]
    /\ replies' = <<Notice("cancelled")>>
    /\ last' = Event("cancel", c, <<>>, "", "cancel", 0, 0)
    /\ UNCHANGED <<records, raw, key, ok>>

----------------------------------------------------------------------------
(* stats *)

\* variant: a failure of get_stats() is swallowed without a notice
stats_mut_silent(c) ==
    /\ \E store_fail \in 0..1 :
         /\ replies' = IF store_fail = 1
                       THEN <<>>
                       ELSE <<StatsNotice(get_stats(records))>>
         /\ last' = Event("stats", c, <<>>, "", "stats", store_fail, 0)
    /\ UNCHANGED <<records, user_data, raw, key, ok>>

\* get_stats() raises (store_fail = 1), or the send of the statistics does
\* (send_fail = 1); the except clause answers either with the error notice
stats(c) ==
    /\ \E store_fail \in 0..1, send_fail \in 0..1 :
         /\ store_fail = 1 => send_fail = 0
         /\ replies' = IF store_fail = 1
                       THEN <<Notice("stats_error")>>
                       ELSE IF send_fail = 1
                       THEN <<StatsNotice(get_stats(records)), Notice("stats_error")>>
                       ELSE <<StatsNotice(get_stats(records))>>
         /\ last' = Event("stats", c, <<>>, "", "stats", store_fail, send_fail)
    /\ UNCHANGED <<records, user_data, raw, key, ok>>

----------------------------------------------------------------------------
(* list_plates *)

\* the characters of the model by code point, lowest first
CodeOrder ==
    <<"\n", " ", "0","1","2","3","4","5","6","7","8","9">> \o UpperSeq
        \o LowerSeq \o <<"U+00DF", "U+0663", "U+2022">>

code_point == [ch \in {CodeOrder[i] : i \in DOMAIN CodeOrder} |->
                 CHOOSE i \in DOMAIN CodeOrder : CodeOrder[i] = ch]

\* s < t of two str
RECURSIVE str_less(_, _)
str_less(s, t) ==
    IF t = <<>> THEN FALSE
    ELSE IF s = <<>> THEN TRUE
    ELSE IF Head(s) = Head(t) THEN str_less(Tail(s), Tail(t))
    ELSE code_point[Head(s)] < code_point[Head(t)]

\* insert plate into an ascending list
RECURSIVE insert_sorted(_, _)
insert_sorted(plate, into) ==
    IF into = <<>> THEN <<plate>>
    ELSE IF str_less(plate, Head(into)) THEN <<plate>> \o into
    ELSE <<Head(into)>> \o insert_sorted(plate, Tail(into))

\* sorted(plates)
RECURSIVE sorted(_)
sorted(plates) ==
    IF plates = <<>> THEN <<>>
    ELSE insert_sorted(Head(plates), sorted(Tail(plates)))

\* "\n".join of the bulleted plates ("U+2022" is the bullet)
RECURSIVE plates_list(_)
plates_list(plates) ==
    IF plates = <<>> THEN <<>>
    ELSE IF Len(plates) = 1 THEN <<"U+2022", " ">> \o plates[1]
    ELSE <<"U+2022", " ">> \o plates[1] \o <<"\n">> \o plates_list(Tail(plates))

\* the longest listing sent as one message
chunk_len == 4000

\* the pieces of chunk_len characters, only when the listing is longer
RECURSIVE pieces(_)
pieces(listing) ==
    IF Len(listing) <= chunk_len THEN <<listing>>
    ELSE <<SubSeq(listing, 1, chunk_len)>>
         \o pieces(SubSeq(listing, chunk_len + 1, Len(listing)))

chunks(listing) ==
    IF Len(listing) > chunk_len THEN pieces(listing) ELSE <<listing>>

\* the messages of the listing of these plates
listing_eval(plates) == chunks(plates_list(sorted(plates)))

\* the keys the handlers' texts are stored under, and the lists without
\* repetition made of them
StoredPlates ==
    {normalize_text(t) : t \in {u \in Texts : validate_format(strip(u))}}

PlateLists ==
    {l \in UNION {[1..n -> StoredPlates] : n \in 0..Cardinality(StoredPlates)} :
        \A i, j \in DOMAIN l : l[i] = l[j] => i = j}

\* listing_eval on those lists, evaluated once
listing_memo == [plates \in PlateLists |-> listing_eval(plates)]

listing(plates) ==
    IF plates \in DOMAIN listing_memo
    THEN listing_memo[plates]
    ELSE listing_eval(plates)

\* the sends of the listing, up to the one that raises
RECURSIVE list_replies(_, _, _)
list_replies(parts, send_fail, i) ==
    IF i > Len(parts) THEN <<>>
    ELSE IF i = send_fail THEN <<ListNotice(parts[i]), Notice("list_error")>>
    ELSE <<ListNotice(parts[i])>> \o list_replies(parts, send_fail, i + 1)

\* get_all_plates() raises
list_fails(c) ==
    /\ replies' = <<Notice("list_error")>>
    /\ last' = Event("list", c, <<>>, "", "list", 1, 0)

\* no plate is stored: the notice, return
list_empty(c) ==
    /\ get_all_plates(records) = <<>>
    /\ \E send_fail \in 0..1 :
         /\ replies' = IF send_fail = 1
                       THEN <<Notice("list_empty"), Notice("list_error")>>
                       ELSE <<Notice("list_empty")>>
         /\ last' = Event("list", c, <<>>, "", "empty", 0, send_fail)

\* the sorted plates, in one message or in pieces
list_sent(c) ==
    LET plates == get_all_plates(records)
        parts == listing(plates)
    IN  /\ plates # <<>>
        /\ \E send_fail \in 0..Len(parts) :
             /\ replies' = list_replies(parts, send_fail, 1)
             /\ last' = Event("list", c, <<>>, "", "list", 0, send_fail)

list_plates(c) ==
    /\ \/ list_fails(c)
       \/ list_empty(c)
       \/ list_sent(c)
    /\ UNCHANGED <<records, user_data, raw, key, ok>>

----------------------------------------------------------------------------
(* The dispatcher hands one update at a time to its handler *)

\* the history variables are not kept
Quiet == UNCHANGED <<marks, followed>>

Next ==
    \/ \E c \in Conversations, photo_data \in Blobs :
         handle_photo_auto(c, photo_data) /\ Quiet
    \/ \E c \in Conversations, text \in Texts : handle_text_auto(c, text) /\ Quiet
    \/ \E c \in Conversations, query \in Queries : search_direct(c, query) /\ Quiet
    \/ \E c \in Conversations : cancel(c) /\ Quiet

Spec == Init /\ [][Next]_vars

\* the same with the commands that only read the collection, /stats and /list
NextCommands ==
    \/ Next
    \/ \E c \in Conversations : stats(c) /\ Quiet
    \/ \E c \in Conversations : list_plates(c) /\ Quiet

SpecCommands == Init /\ [][NextCommands]_vars

----------------------------------------------------------------------------
(* The same updates with their history kept, in the runs where no store     *)
(* call raises.  marks[c] runs parallel to the list under photo_data of     *)
(* conversation c: for each buffered photo, the key of the first valid text *)
(* that came after it and how many documents hold it.                       *)

\* no valid text has come yet (a plate is never the empty string)
NoPlate == <<>>

Unmarked == [first |-> NoPlate, saved |-> 0]

\* a valid text with key plate has run the save loop over the photos of ms;
\* store_fail is the insert that raised (0: none)
MarkSaved(ms, plate, store_fail) ==
    [i \in DOMAIN ms |->
        [first |-> IF ms[i].first = NoPlate THEN plate ELSE ms[i].first,
         saved |-> IF store_fail = 0 \/ i < store_fail
                   THEN ms[i].saved + 1 ELSE ms[i].saved]]

\* the photos of ms no valid text has followed yet
Unfollowed(ms) == Cardinality({i \in DOMAIN ms : ms[i].first = NoPlate})

\* the history of the step just taken, read off last' and user_data'
Record ==
    LET c == last'.conv
        saves == last'.op = "text" /\ last'.branch = "save"
        marked == IF last'.op = "photo" /\ last'.branch = "buffered"
                  THEN Append(marks[c], Unmarked)
                  ELSE IF saves
                  THEN MarkSaved(marks[c], normalize_text(last'.text),
                                 last'.store_fail)
                  ELSE marks[c]
    IN  /\ marks' = [marks EXCEPT
                        ![c] = IF pending(user_data'[c]) = <<>> THEN <<>> ELSE marked]
        /\ followed' = IF saves THEN followed + Unfollowed(marks[c]) ELSE followed

\* no store call of the step raises
StoreUp == last'.store_fail = 0

\* the updates in the runs where the store never fails, with their history
NextStoreUp ==
    \/ \E c \in Conversations, photo_data \in Blobs :
         handle_photo_auto(c, photo_data) /\ StoreUp /\ Record
    \/ \E c \in Conversations, text \in Texts :
         handle_text_auto(c, text) /\ StoreUp /\ Record
    \/ \E c \in Conversations, query \in Queries :
         search_direct(c, query) /\ StoreUp /\ Record
    \/ \E c \in Conversations : cancel(c) /\ StoreUp /\ Record

SpecStoreUp == Init /\ [][NextStoreUp]_vars

----------------------------------------------------------------------------
(* normalize_text and validate_format on typed text *)

\* what one keystroke group adds to the text
Tokens == {<<"1","2">>, <<"3","4","5">>, <<"A","B">>, <<"a","b">>, <<" ">>,
           <<"\n">>, <<"1","U+0663">>, <<"U+00DF">>}

\* the text the typed tokens make
RECURSIVE text_of(_)
text_of(tokens) ==
    IF tokens = <<>> THEN <<>> ELSE Head(tokens) \o text_of(Tail(tokens))

\* one more token is typed; the two functions are applied to the text
Type(token) ==
    /\ Len(raw) < MaxTokens
    /\ raw' = Append(raw, token)
    /\ key' = normalize_text(text_of(raw'))
    /\ ok' = validate_format(text_of(raw'))
    /\ UNCHANGED <<records, user_data, replies, last, marks, followed>>

NextText == \E token \in Tokens : Type(token)

SpecText == Init /\ [][NextText]_vars

----------------------------------------------------------------------------
(* Vocabulary of the properties.  A step's update is last', its conversation *)
(* last'.conv; the buffer it finds is the list pending before the step.      *)

Buf == pending(user_data[last'.conv])

BufAfter == pending(user_data'[last'.conv])

\* the documents the step appended to the collection
NewRecords == SubSeq(records', Len(records) + 1, Len(records'))

\* the step did not touch the documents it found
OldRecordsKept ==
    /\ Len(records') >= Len(records)
    /\ SubSeq(records', 1, Len(records)) = records

\* one document per photo, in order, under the normalized text
DocumentsFor(text, photos) ==
    [i \in 1..Len(photos) |->
        [license_plate |-> normalize_text(text),
         photo_data |-> Binary(photos[i]),
         created_at |-> datetime_now]]

Kinds(notices) == {notices[i].kind : i \in DOMAIN notices}

\* a text message that finds photos buffered
TextOnBuffer == last'.op = "text" /\ Buf # <<>>

\* a text message that finds no photo buffered
TextOnIdle == last'.op = "text" /\ Buf = <<>>

----------------------------------------------------------------------------
(* C1: a valid text that finds n >= 1 photos buffered, with no store write   *)
(* failing, inserts exactly one record per buffered photo, each under        *)
(* normalize(text), and leaves the conversation's buffer empty.              *)
C1_SaveAllAndClear ==
    [][ (TextOnBuffer /\ validate_format(last'.text) /\ last'.store_fail = 0)
        => /\ OldRecordsKept
           /\ NewRecords = DocumentsFor(last'.text, Buf)
           /\ BufAfter = <<>> ]_vars

----------------------------------------------------------------------------
(* C2: an invalid text that finds photos buffered gets the format notice,    *)
(* inserts no record and leaves every buffer as it was; a valid text that    *)
(* follows it in the conversation saves those photos, in their order.        *)
C2_RejectKeepsBuffer ==
    [][ /\ (TextOnBuffer /\ ~validate_format(last'.text))
           => /\ records' = records
              /\ user_data' = user_data
              /\ replies' = <<Notice("format_error")>>
        /\ ( /\ last.op = "text" /\ last.branch = "reject"
             /\ last'.op = "text" /\ last'.conv = last.conv
             /\ validate_format(last'.text) /\ last'.store_fail = 0 )
           => /\ Buf # <<>>
              /\ NewRecords = DocumentsFor(last'.text, Buf) ]_vars

\* a rejected text has left two photos buffered
C2_Witness ==
    /\ last.op = "text" /\ last.branch = "reject"
    /\ ~validate_format(last.text)
    /\ Len(pending(user_data[last.conv])) = 2
    /\ replies = <<Notice("format_error")>>

----------------------------------------------------------------------------
(* C3: when the k-th insert of a batch fails, the buffer is not cleared, the *)
(* k-1 records inserted before it stay in the store, and the store-error     *)
(* notice is sent, not the saved notice.                                     *)
C3_PartialSaveKept ==
    [][ (TextOnBuffer /\ validate_format(last'.text) /\ last'.store_fail >= 1)
        => /\ user_data' = user_data
           /\ OldRecordsKept
           /\ NewRecords =
                DocumentsFor(last'.text, SubSeq(Buf, 1, last'.store_fail - 1))
           /\ replies' = <<Notice("save_error")>> ]_vars

\* the second insert of a batch of two has failed, the first is stored
C3_Witness ==
    /\ last.op = "text" /\ last.store_fail = 2
    /\ Len(pending(user_data[last.conv])) = 2
    /\ Len(records) >= 1
    /\ records[Len(records)].photo_data = Binary(pending(user_data[last.conv])[1])
    /\ replies = <<Notice("save_error")>>

----------------------------------------------------------------------------
(* C4: a cancel, whatever the buffer holds, leaves the conversation's buffer *)
(* empty and inserts nothing; a valid text that follows it in the            *)
(* conversation inserts nothing and is answered as a search.                 *)
C4_CancelClears ==
    [][ /\ last'.op = "cancel"
           => /\ user_data'[last'.conv] = EmptyDict
              /\ records' = records
        /\ ( /\ last.op = "cancel"
             /\ last'.op = "text" /\ last'.conv = last.conv
             /\ validate_format(last'.text) )
           => /\ records' = records
              /\ user_data' = user_data
              /\ Kinds(replies') \subseteq {"no_results", "photo", "search_error"}
              /\ (last'.store_fail = 0 /\ last'.send_fail = 0)
                   => "search_error" \notin Kinds(replies') ]_vars

\* a cancel has emptied a conversation while the store holds records
C4_Witness ==
    /\ last.op = "cancel"
    /\ user_data[last.conv] = EmptyDict
    /\ records # <<>>

----------------------------------------------------------------------------
(* C5: a text that finds no photo buffered is answered by perform_search and *)
(* changes neither buffers nor store, valid or not, matching or not; a text  *)
(* that finds photos buffered never gets a search answer.                    *)
C5_IdleTextSearches ==
    [][ /\ TextOnIdle
           => /\ records' = records
              /\ user_data' = user_data
              /\ \E find_fails \in BOOLEAN, send_fail \in 0..MaxRecords :
                   replies' = perform_search(records, strip(last'.text),
                                             find_fails, send_fail)
        /\ TextOnBuffer
           => Kinds(replies') \cap {"no_results", "photo", "search_error"} = {} ]_vars

\* an idle text has been answered with a stored photo
C5_Witness ==
    /\ last.op = "text"
    /\ pending(user_data[last.conv]) = <<>>
    /\ replies # <<>> /\ replies[1].kind = "photo"

----------------------------------------------------------------------------
(* C6: n buffered photos and a valid text, no store failure: the record      *)
(* count grows by n, the n new records share one license_plate, and the      *)
(* number of distinct keys grows by at most 1, by 0 when the key was there.  *)
C6_BatchCounts ==
    [][ (TextOnBuffer /\ validate_format(last'.text) /\ last'.store_fail = 0)
        => /\ get_stats(records').total_records
                = get_stats(records).total_records + Len(Buf)
           /\ OldRecordsKept
           /\ \A i, j \in DOMAIN NewRecords :
                NewRecords[i].license_plate = NewRecords[j].license_plate
           /\ get_stats(records').unique_plates
                <= get_stats(records).unique_plates + 1
           /\ (\E i \in DOMAIN records :
                 records[i].license_plate = normalize_text(last'.text))
                => get_stats(records').unique_plates
                     = get_stats(records).unique_plates ]_vars

\* a batch of two has been saved under one key
C6_Witness ==
    /\ last.op = "text" /\ last.branch = "save" /\ last.store_fail = 0
    /\ replies[1] = CountNotice("saved", 2)
    /\ Len(records) = 2
    /\ records[1].license_plate = records[2].license_plate

----------------------------------------------------------------------------
(* C7: with the store empty, after a photo is saved under K a search for K   *)
(* returns that photo exactly once, and a search for any other normalized    *)
(* key returns nothing.                                                      *)
C7_RoundTrip ==
    [][ ( /\ records = <<>>
          /\ TextOnBuffer /\ Len(Buf) = 1
          /\ validate_format(last'.text) /\ last'.store_fail = 0 )
        => /\ search_record(records', last'.text) = <<Binary(Buf[1])>>
           /\ search_record(records', normalize_text(last'.text))
                = <<Binary(Buf[1])>>
           /\ \A t \in Texts :
                normalize_text(t) # normalize_text(last'.text)
                  => search_record(records', normalize_text(t)) = <<>> ]_vars

\* one photo has been saved into the empty store
C7_Witness ==
    /\ last.op = "text" /\ last.branch = "save" /\ last.store_fail = 0
    /\ replies[1] = CountNotice("saved", 1)
    /\ Len(records) = 1
    /\ search_record(records, last.text) = <<records[1].photo_data>>

----------------------------------------------------------------------------
(* Searches, as the properties read them off a step *)

\* the text perform_search receives from a text message and from a query
SearchTexts ==
    [t \in Texts \cup Queries |->
        [text |-> strip(t), search |-> strip(join(args_of(t)))]]

SearchText(event) ==
    IF event.op = "text" THEN SearchTexts[event.text].text
    ELSE SearchTexts[event.text].search

\* the answer of a search that found these records
AnswerFor(found, search_text) ==
    IF found = <<>>
    THEN <<Notice("no_results")>>
    ELSE [i \in 1..Len(found) |->
            PhotoNotice(found[i].photo_data.data, search_text)]

\* perform_search runs, no call fails
SearchStep ==
    /\ last'.store_fail = 0
    /\ last'.send_fail = 0
    /\ \/ TextOnIdle
       \/ last'.op = "search" /\ SearchText(last') # <<>>

(* C8: photos saved with text r1 are returned by a search with text r2 if    *)
(* and only if normalize(r1) = normalize(r2); a search that finds nothing    *)
(* gets the no-results notice, not an error.                                 *)
C8_SearchByNormalForm ==
    [][ /\ (TextOnBuffer /\ validate_format(last'.text) /\ last'.store_fail = 0)
           => \A r2 \in Texts :
                LET before == search_record(records, r2)
                    after == search_record(records', r2)
                IN  IF normalize_text(last'.text) = normalize_text(r2)
                    THEN after = before \o [i \in 1..Len(Buf) |-> Binary(Buf[i])]
                    ELSE after = before
        /\ (SearchStep /\ validate_format(SearchText(last')))
           => LET searched == normalize_text(SearchText(last'))
              IN  replies' =
                    AnswerFor(SelectSeq(records,
                                        LAMBDA r : r.license_plate = searched),
                              SearchText(last')) ]_vars

\* a search with a text that is not its own normal form has returned a photo
C8_Witness ==
    /\ last.op = "text" /\ last.text = T_padded
    /\ last.store_fail = 0 /\ last.send_fail = 0
    /\ replies # <<>> /\ replies[1].kind = "photo"
    /\ normalize_text(last.text) # last.text

----------------------------------------------------------------------------
(* C9: an update of one conversation never changes the buffer of another,    *)
(* and the records a text inserts carry photos of its own conversation's     *)
(* buffer only.                                                              *)
C9_ConversationsIndependent ==
    [][ /\ \A b \in Conversations \ {last'.conv} : user_data'[b] = user_data[b]
        /\ OldRecordsKept
        /\ Len(NewRecords) <= Len(Buf)
        /\ \A i \in DOMAIN NewRecords :
             NewRecords[i].photo_data = Binary(Buf[i]) ]_vars

\* A's photo has been saved while B holds another photo
C9_Witness ==
    /\ last.op = "text" /\ last.branch = "save" /\ last.conv = "A"
    /\ last.store_fail = 0 /\ last.send_fail = 0
    /\ records # <<>>
    /\ pending(user_data["A"]) = <<>>
    /\ pending(user_data["B"]) # <<>>
    /\ records[Len(records)].photo_data # Binary(pending(user_data["B"])[1])

----------------------------------------------------------------------------
(* The seven shapes of the accepted-format list, over ASCII digits and A-Z *)

ClaimedShapes == {
    <<"D","D"," ","D","D"," ","D","D","D">>,
    <<"D","D","D"," ","L","L"," ","D","D">>,
    <<"D","D","D"," ","D","D"," ","D","D">>,
    <<"D","D"," ","L","L"," ","D","D","D">>,
    <<"D","D","D","D","D","D","D">>,
    <<"D","D","D","L","L","D","D">>,
    <<"D","D","L","L","D","D","D">> }

HasClaimedShape(text) ==
    \E shape \in ClaimedShapes :
        /\ Len(text) = Len(shape)
        /\ \A i \in 1..Len(shape) :
             IF shape[i] = "D" THEN text[i] \in ASCIIDigit
             ELSE IF shape[i] = "L" THEN text[i] \in UpperAZ
             ELSE text[i] = " "

(* C10: validate_format(raw) is true if and only if normalize(raw), as a     *)
(* whole string, has one of the shapes DD DD DDD, DDD LL DD, DDD DD DD,      *)
(* DD LL DDD, DDDDDDD, DDDLLDD, DDLLDDD with D an ASCII digit 0-9 and L an   *)
(* uppercase ASCII letter A-Z.                                               *)
C10_ValidIffAsciiShape == ok = HasClaimedShape(key)

----------------------------------------------------------------------------
(* What the description says of a normalized string *)

LowerAZ == {LowerSeq[i] : i \in DOMAIN LowerSeq}

Normalized(text) ==
    /\ text = <<>> \/ (text[1] \notin Whitespace /\ text[Len(text)] \notin Whitespace)
    /\ \A i \in DOMAIN text : text[i] \notin LowerAZ
    /\ \A i \in 1..(Len(text) - 1) :
         ~(text[i] \in Whitespace /\ text[i + 1] \in Whitespace)

(* C11: normalize_text returns, for every text, a string with no leading or  *)
(* trailing whitespace, no lowercase ASCII letter and no run of two or more  *)
(* whitespace characters, and normalizing that string again returns it.      *)
C11_NormalizeIdempotent ==
    /\ Normalized(key)
    /\ normalize_text(key) = key

\* a text with lowercase letters, a whitespace run and a sharp s was normalized
C11_Witness ==
    /\ raw = << <<"a","b">>, <<" ">>, <<"\n">>, <<"U+00DF">>, <<" ">> >>
    /\ key = <<"A","B"," ","S","S">>

----------------------------------------------------------------------------
(* Store failures *)

\* the notice a handler's except clause sends
ErrorNotice(event) ==
    IF event.op = "stats" THEN Notice("stats_error")
    ELSE IF event.op = "list" THEN Notice("list_error")
    ELSE IF event.branch = "save" THEN Notice("save_error")
    ELSE Notice("search_error")

\* the dispatcher can hand conversation c a further update
Serves(c) ==
    /\ ENABLED cancel(c)
    /\ ENABLED handle_text_auto(c, T_bad)

(* C12: a store failure in a batch save, a search, /list or /stats is        *)
(* answered by that handler's error notice and by no other notice, and       *)
(* after it the bot still takes updates of every conversation.               *)
C12_StoreFailureNotice ==
    /\ [][ last'.store_fail >= 1
           => /\ last'.op \in {"text", "search", "stats", "list"}
              /\ replies' = <<ErrorNotice(last')>> ]_vars
    /\ [](last.store_fail >= 1 => \A c \in Conversations : Serves(c))

\* /list has failed on the store while records and a buffer exist
C12_Witness ==
    /\ last.op = "list" /\ last.store_fail = 1
    /\ replies = <<Notice("list_error")>>
    /\ records # <<>>
    /\ pending(user_data[last.conv]) # <<>>

----------------------------------------------------------------------------
(* The outbound effects of a turn: what is reported and which photos are    *)
(* returned, without the wording of captions                                *)

Effects(notices) ==
    [i \in DOMAIN notices |-> [kind |-> notices[i].kind, photo |-> notices[i].photo]]

(* C13: /search with query text q has the effects of the bare text q in an  *)
(* idle conversation, whatever the conversation has buffered: the format    *)
(* notice for an invalid q, else the photos stored under normalize(q) or the *)
(* no-results notice; it changes neither the store nor any buffer.           *)
C13_SearchLikeIdleText ==
    [][ (last'.op = "search" /\ last'.branch = "perform_search")
        => /\ records' = records
           /\ user_data' = user_data
           /\ Effects(replies')
                = Effects(perform_search(records, strip(last'.text),
                                         last'.store_fail = 1, last'.send_fail)) ]_vars

\* /search has returned a stored photo to a conversation with a photo buffered
C13_Witness ==
    /\ last.op = "search" /\ last.branch = "perform_search"
    /\ last.store_fail = 0 /\ last.send_fail = 0
    /\ pending(user_data[last.conv]) # <<>>
    /\ replies # <<>> /\ replies[1].kind = "photo"
    /\ Len(records) = 1

----------------------------------------------------------------------------
(* C14: no update changes or removes a document of the collection; documents *)
(* are added only by a valid plate text that finds photos buffered; photo,   *)
(* cancel, /search, /list and /stats updates, and texts that search or are   *)
(* rejected, leave the collection as it was.                                 *)
C14_AppendOnly ==
    [][ /\ OldRecordsKept
        /\ records' # records
             => /\ TextOnBuffer
                /\ validate_format(last'.text)
                /\ last'.branch = "save"
        /\ last'.op \in {"photo", "cancel", "search", "list", "stats"}
             => records' = records ]_vars

\* a second save has added a document after the one an earlier save stored
C14_Witness ==
    /\ last.op = "text" /\ last.branch = "save" /\ last.store_fail = 0
    /\ replies[1] = CountNotice("saved", 1)
    /\ Len(records) = 2
    /\ records[1].license_plate = records[2].license_plate
    /\ records[1].photo_data # records[2].photo_data

----------------------------------------------------------------------------
(* The keys of the collection *)

Keys(recs) == {recs[i].license_plate : i \in DOMAIN recs}

(* C15: get_all_plates lists every key of the collection exactly once,       *)
(* however many documents share it; get_stats gives the number of documents  *)
(* and the number of distinct keys, so unique_plates <= total_records; and   *)
(* the numbers /stats reports are those of the collection at that time.      *)
C15_DistinctAndCounts ==
    LET plates == get_all_plates(records)
        reported == get_stats(records)
    IN  /\ \A i, j \in DOMAIN plates : plates[i] = plates[j] => i = j
        /\ {plates[i] : i \in DOMAIN plates} = Keys(records)
        /\ reported.total_records = Len(records)
        /\ reported.unique_plates = Cardinality(Keys(records))
        /\ reported.unique_plates <= reported.total_records
        /\ (last.op = "stats" /\ last.store_fail = 0)
             => /\ replies[1].kind = "stats"
                /\ replies[1].count = Len(records)
                /\ replies[1].unique = Cardinality(Keys(records))

\* /stats has reported two documents under one key
C15_Witness ==
    /\ last.op = "stats" /\ last.store_fail = 0
    /\ replies[1].count = 2
    /\ replies[1].unique = 1
    /\ get_all_plates(records) = <<records[1].license_plate>>

----------------------------------------------------------------------------
(* C16: a photo that was downloaded is appended to the end of its            *)
(* conversation's buffer, behind the photos already there and in their       *)
(* order, so that the buffer is not empty, and the collection and the other  *)
(* buffers stay as they were; a photo whose download fails leaves every      *)
(* buffer and the collection as they were and gets the error notice.         *)
C16_PhotoAppends ==
    [][ last'.op = "photo"
        => /\ records' = records
           /\ \A b \in Conversations \ {last'.conv} : user_data'[b] = user_data[b]
           /\ IF last'.branch = "buffered"
              THEN /\ BufAfter = Buf \o <<last'.photo>>
                   /\ BufAfter # <<>>
                   /\ replies'[1].kind \in {"photo_first", "photo_count"}
              ELSE /\ user_data' = user_data
                   /\ replies' = <<Notice("photo_error")>> ]_vars

\* a second, different photo has been buffered behind the first
C16_Witness ==
    /\ last.op = "photo" /\ last.branch = "buffered"
    /\ Len(pending(user_data[last.conv])) = 2
    /\ pending(user_data[last.conv])[2] = last.photo
    /\ pending(user_data[last.conv])[1] # last.photo
    /\ replies = <<CountNotice("photo_count", 2)>>

----------------------------------------------------------------------------
(* The save loop runs: a valid text has found photos buffered *)

SaveStep == last'.op = "text" /\ last'.branch = "save"

\* the key of the first valid text after the i-th buffered photo, this
\* step's text when none came before
FirstKey(i) ==
    IF marks[last'.conv][i].first = NoPlate
    THEN normalize_text(last'.text)
    ELSE marks[last'.conv][i].first

(* C17: every document holds a buffered photo under the normalized form of   *)
(* the first valid text that arrived in the conversation after that photo,   *)
(* with no cancel in between; so no photo is stored under two keys.          *)
C17_FirstValidTextKeys ==
    [][ SaveStep
        => \A i \in DOMAIN NewRecords :
             /\ NewRecords[i].photo_data = Binary(Buf[i])
             /\ NewRecords[i].license_plate = FirstKey(i) ]_vars

----------------------------------------------------------------------------
(* C18: the buffer is cleared together with the batch save that stores it:   *)
(* in no reachable state is every photo of a non-empty buffer already held   *)
(* by a document, and no text inserts a buffered photo a second time.        *)
C18_SavedAndClearedTogether ==
    /\ [](\A c \in Conversations :
            marks[c] = <<>> \/ \E i \in DOMAIN marks[c] : marks[c][i].saved = 0)
    /\ [][ SaveStep
           => \A i \in DOMAIN NewRecords : marks[last'.conv][i].saved = 0 ]_vars

----------------------------------------------------------------------------
(* C19: from the empty collection on, the license_plate of every document    *)
(* is its own normalize_text and passes validate_format.                     *)
C19_KeysNormalAndValid ==
    \A i \in DOMAIN records :
        /\ normalize_text(records[i].license_plate) = records[i].license_plate
        /\ validate_format(records[i].license_plate)

\* a text that is not its own normal form has been saved under its key
C19_Witness ==
    /\ last.op = "text" /\ last.branch = "save" /\ last.text = T_spaced
    /\ records # <<>>
    /\ records[Len(records)].license_plate
         = <<"1","2"," ","A","B"," ","3","4","5">>
    /\ records[Len(records)].license_plate # strip(last.text)

----------------------------------------------------------------------------
(* C20: the count of a saved notice is the number of documents its turn      *)
(* inserted, and while no store call fails the collection holds as many      *)
(* documents as photos were received and then followed by a valid text       *)
(* before any cancel.                                                        *)
C20_CountsMatch ==
    /\ [][ \A i \in DOMAIN replies' :
             replies'[i].kind = "saved"
               => Len(records') = Len(records) + replies'[i].count ]_vars
    /\ [](Len(records) = followed)

====
